---- MODULE Spec2Model ----
(***************************************************************************)
(* Model of the LiteLLM/Lakera demo client: the guardrail-violation parser *)
(* of ProxyClient.chat_completion (src/src/client.py), the rendering of    *)
(* GuardrailViolationError, and the history kept by ChatSession            *)
(* (src/src/chat.py).                                                      *)
(*                                                                         *)
(* Text is a sequence of tokens.  A token is a chunk of characters `c'     *)
(* together with the number `e' of backslash escapings in front of it:     *)
(* punctuation, the two quote characters and words are all tokens, and     *)
(* white space is not represented.  Python/JSON values are tagged records: *)
(* the tag `t' is always consulted before the payload `v'.                 *)
(***************************************************************************)
EXTENDS Integers, Sequences, FiniteSets, TLC

(***************************************************************************)
(* Tokens and values                                                       *)
(***************************************************************************)
T(c) == [c |-> c, e |-> 0]

DQ == T("\"")
SQ == T("'")

W(c) == <<T(c)>>

Null == [t |-> "null"]
B(b) == [t |-> "bool", v |-> b]
N(n) == [t |-> "int", v |-> n]
F(p) == [t |-> "float", v |-> p]
S(toks) == [t |-> "str", v |-> toks]
L(items) == [t |-> "list", v |-> items]
D(entries) == [t |-> "dict", v |-> entries]

KV(k, val) == [k |-> S(W(k)), v |-> val]

EmptyDict == D(<<>>)
EmptyStr == S(<<>>)

\* Numbers that occur in payloads: integers, and floats in thousandths
\* (953 stands for 0.953, written 953e-3).
IntVals == {0, 1, 5, 7}
FloatVals == {120, 953}

IntWord(n) == ToString(n)
FloatWord(p) == ToString(p) \o "e-3"

IsIntWord(w) == \E n \in IntVals : IntWord(n) = w
IsFloatWord(w) == \E p \in FloatVals : FloatWord(p) = w
IntOfWord(w) == CHOOSE n \in IntVals : IntWord(n) = w
FloatOfWord(w) == CHOOSE p \in FloatVals : FloatWord(p) = w

IsPunct(tok) == tok.c \in {"{", "}", "[", "]", ",", ":"}
IsQuote(tok) == tok.c \in {"\"", "'"}

(***************************************************************************)
(* Serialisation: json.dumps (what the gateway sends, and what a JSON      *)
(* encoder puts in error.message) and Python's repr / str.                 *)
(***************************************************************************)
\* Escape the content of a string for a literal delimited by quote q:
\* the delimiter gets a backslash, and every existing backslash is doubled.
Escape(toks, q) ==
    [i \in 1..Len(toks) |->
        IF toks[i].e > 0 \/ toks[i].c = q.c
        THEN [c |-> toks[i].c, e |-> toks[i].e + 1]
        ELSE toks[i]]

JsonStr(toks) == <<DQ>> \o Escape(toks, DQ) \o <<DQ>>

HasChar(toks, c) == \E i \in 1..Len(toks) : toks[i].c = c

\* repr(str): single quotes unless the string holds a single quote and no
\* double quote.
PyReprStr(toks) ==
    IF HasChar(toks, "'") /\ ~HasChar(toks, "\"")
    THEN <<DQ>> \o Escape(toks, DQ) \o <<DQ>>
    ELSE <<SQ>> \o Escape(toks, SQ) \o <<SQ>>

RECURSIVE JsonDumps(_)
RECURSIVE JsonItems(_)
RECURSIVE JsonEntries(_)

JsonItems(items) ==
    IF items = <<>> THEN <<>>
    ELSE JsonDumps(Head(items))
         \o (IF Len(items) > 1 THEN <<T(",")>> ELSE <<>>)
         \o JsonItems(Tail(items))

JsonEntries(entries) ==
    IF entries = <<>> THEN <<>>
    ELSE JsonDumps(Head(entries).k) \o <<T(":")>> \o JsonDumps(Head(entries).v)
         \o (IF Len(entries) > 1 THEN <<T(",")>> ELSE <<>>)
         \o JsonEntries(Tail(entries))

JsonDumps(x) ==
    CASE x.t = "null" -> W("null")
      [] x.t = "bool" -> IF x.v THEN W("true") ELSE W("false")
      [] x.t = "int" -> W(IntWord(x.v))
      [] x.t = "float" -> W(FloatWord(x.v))
      [] x.t = "str" -> JsonStr(x.v)
      [] x.t = "list" -> <<T("[")>> \o JsonItems(x.v) \o <<T("]")>>
      [] x.t = "dict" -> <<T("{")>> \o JsonEntries(x.v) \o <<T("}")>>

RECURSIVE PyRepr(_)
RECURSIVE PyItems(_)
RECURSIVE PyEntries(_)

PyItems(items) ==
    IF items = <<>> THEN <<>>
    ELSE PyRepr(Head(items))
         \o (IF Len(items) > 1 THEN <<T(",")>> ELSE <<>>)
         \o PyItems(Tail(items))

PyEntries(entries) ==
    IF entries = <<>> THEN <<>>
    ELSE PyRepr(Head(entries).k) \o <<T(":")>> \o PyRepr(Head(entries).v)
         \o (IF Len(entries) > 1 THEN <<T(",")>> ELSE <<>>)
         \o PyEntries(Tail(entries))

PyRepr(x) ==
    CASE x.t = "null" -> W("None")
      [] x.t = "bool" -> IF x.v THEN W("True") ELSE W("False")
      [] x.t = "int" -> W(IntWord(x.v))
      [] x.t = "float" -> W(FloatWord(x.v))
      [] x.t = "str" -> PyReprStr(x.v)
      [] x.t = "list" -> <<T("[")>> \o PyItems(x.v) \o <<T("]")>>
      [] x.t = "dict" -> <<T("{")>> \o PyEntries(x.v) \o <<T("}")>>

\* str(x): a string is itself, anything else is its repr.
PyStr(x) == IF x.t = "str" THEN x.v ELSE PyRepr(x)

(***************************************************************************)
(* Decoding: json.loads and ast.literal_eval over token text.  A result is *)
(* [exc, val, next]: exc = "none" on success, else the exception raised.   *)
(***************************************************************************)
ParseOk(val, next) == [exc |-> "none", val |-> val, next |-> next]
ParseFail(exc) == [exc |-> exc, val |-> Null, next |-> 0]

\* What the decoder raises on text it does not accept.
SyntaxExc(py) == IF py THEN "SyntaxError" ELSE "JSONDecodeError"
NameExc(py) == IF py THEN "ValueError" ELSE "JSONDecodeError"

SameValue(a, b) == a.t = b.t /\ a = b

Hashable(x) == x.t \notin {"list", "dict"}

Unescape(toks) ==
    [i \in 1..Len(toks) |->
        IF toks[i].e > 0 THEN [c |-> toks[i].c, e |-> toks[i].e - 1]
        ELSE toks[i]]

\* Index of the first unescaped quote q after position i, 0 if there is none.
CloseIndex(toks, i, q) ==
    LET cands == {j \in (i + 1)..Len(toks) : toks[j].c = q.c /\ toks[j].e = 0}
    IN  IF cands = {} THEN 0
        ELSE CHOOSE j \in cands : \A k \in cands : j <= k

ParseString(toks, i, py) ==
    LET j == CloseIndex(toks, i, toks[i])
        content == SubSeq(toks, i + 1, j - 1)
    IN  IF j = 0 THEN ParseFail(SyntaxExc(py))
        ELSE IF ~py /\ \E k \in 1..Len(content) :
                           content[k].c = "'" /\ content[k].e = 1
        THEN ParseFail(SyntaxExc(py))
        ELSE ParseOk(S(Unescape(content)), j + 1)

ParseWord(w, i, py) ==
    CASE IsIntWord(w) -> ParseOk(N(IntOfWord(w)), i + 1)
      [] IsFloatWord(w) -> ParseOk(F(FloatOfWord(w)), i + 1)
      [] ~py /\ w = "true" -> ParseOk(B(TRUE), i + 1)
      [] ~py /\ w = "false" -> ParseOk(B(FALSE), i + 1)
      [] ~py /\ w = "null" -> ParseOk(Null, i + 1)
      [] py /\ w = "True" -> ParseOk(B(TRUE), i + 1)
      [] py /\ w = "False" -> ParseOk(B(FALSE), i + 1)
      [] py /\ w = "None" -> ParseOk(Null, i + 1)
      [] OTHER -> ParseFail(NameExc(py))

\* dict[k] = v: a repeated key keeps its position and takes the new value.
DictPut(entries, k, val) ==
    IF \E i \in 1..Len(entries) : SameValue(entries[i].k, k)
    THEN [i \in 1..Len(entries) |->
            IF SameValue(entries[i].k, k) THEN [k |-> k, v |-> val]
            ELSE entries[i]]
    ELSE Append(entries, [k |-> k, v |-> val])

IsTok(toks, i, c) == i <= Len(toks) /\ toks[i].c = c /\ toks[i].e = 0

RECURSIVE ParseValue(_, _, _)
RECURSIVE ParseItems(_, _, _, _)
RECURSIVE ParseEntries(_, _, _, _)

\* Position i expects an item or the closing bracket.
ParseItems(toks, i, py, acc) ==
    IF IsTok(toks, i, "]") /\ (acc = <<>> \/ py) THEN ParseOk(L(acc), i + 1)
    ELSE LET r == ParseValue(toks, i, py)
         IN  IF r.exc # "none" THEN r
             ELSE IF IsTok(toks, r.next, ",")
             THEN ParseItems(toks, r.next + 1, py, Append(acc, r.val))
             ELSE IF IsTok(toks, r.next, "]")
             THEN ParseOk(L(Append(acc, r.val)), r.next + 1)
             ELSE ParseFail(SyntaxExc(py))

\* Position i expects a key or the closing brace.
ParseEntries(toks, i, py, acc) ==
    IF IsTok(toks, i, "}") /\ (acc = <<>> \/ py) THEN ParseOk(D(acc), i + 1)
    ELSE LET k == ParseValue(toks, i, py)
         IN  IF k.exc # "none" THEN k
             ELSE IF ~py /\ k.val.t # "str" THEN ParseFail(SyntaxExc(py))
             ELSE IF ~IsTok(toks, k.next, ":") THEN ParseFail(SyntaxExc(py))
             ELSE LET r == ParseValue(toks, k.next + 1, py)
                  IN  IF r.exc # "none" THEN r
                      ELSE IF ~Hashable(k.val) THEN ParseFail("TypeError")
                      ELSE IF IsTok(toks, r.next, ",")
                      THEN ParseEntries(toks, r.next + 1, py,
                                        DictPut(acc, k.val, r.val))
                      ELSE IF IsTok(toks, r.next, "}")
                      THEN ParseOk(D(DictPut(acc, k.val, r.val)), r.next + 1)
                      ELSE ParseFail(SyntaxExc(py))

ParseValue(toks, i, py) ==
    IF i > Len(toks) THEN ParseFail(SyntaxExc(py))
    ELSE IF toks[i].e > 0 THEN ParseFail(SyntaxExc(py))
    ELSE IF toks[i].c = "{" THEN ParseEntries(toks, i + 1, py, <<>>)
    ELSE IF toks[i].c = "[" THEN ParseItems(toks, i + 1, py, <<>>)
    ELSE IF toks[i].c = "\"" THEN ParseString(toks, i, py)
    ELSE IF toks[i].c = "'"
    THEN IF py THEN ParseString(toks, i, py) ELSE ParseFail(SyntaxExc(py))
    ELSE IF IsPunct(toks[i]) THEN ParseFail(SyntaxExc(py))
    ELSE ParseWord(toks[i].c, i, py)

\* The whole text must be one value: nothing may follow it.
WholeText(toks, py, r) ==
    IF r.exc # "none" THEN r
    ELSE IF r.next # Len(toks) + 1 THEN ParseFail(SyntaxExc(py))
    ELSE r

Loads(toks, py) == WholeText(toks, py, ParseValue(toks, 1, py))

\* json.loads(text) and ast.literal_eval(text)
JsonLoads(toks) == Loads(toks, FALSE)
LiteralEval(toks) == Loads(toks, TRUE)

(***************************************************************************)
(* Python operations used by chat_completion.  A result is [exc, val].     *)
(***************************************************************************)
Ok(val) == [exc |-> "none", val |-> val]
Raise(exc) == [exc |-> exc, val |-> Null]

\* bool(x)
Truthy(x) ==
    CASE x.t = "null" -> FALSE
      [] x.t = "bool" -> x.v
      [] x.t \in {"int", "float"} -> x.v # 0
      [] x.t \in {"str", "list", "dict"} -> x.v # <<>>

HasKey(d, key) == \E i \in 1..Len(d.v) : SameValue(d.v[i].k, key)

\* d.get(key, default) on a dict
Lookup(d, key, default) ==
    IF HasKey(d, key)
    THEN d.v[CHOOSE i \in 1..Len(d.v) : SameValue(d.v[i].k, key)].v
    ELSE default

IsSubText(part, whole) ==
    \E i \in 0..(Len(whole) - Len(part)) :
        SubSeq(whole, i + 1, i + Len(part)) = part

\* `key in x' for a string key
PyContains(x, key) ==
    CASE x.t = "dict" -> Ok(B(HasKey(x, key)))
      [] x.t = "list" ->
            Ok(B(\E i \in 1..Len(x.v) : SameValue(x.v[i], key)))
      [] x.t = "str" -> Ok(B(IsSubText(key.v, x.v)))
      [] OTHER -> Raise("TypeError")

\* x.get(key, default): only a dict has the method
PyGet(x, key, default) ==
    IF x.t = "dict" THEN Ok(Lookup(x, key, default))
    ELSE Raise("AttributeError")

\* `for item in x': the items, as a list
PyIter(x) ==
    CASE x.t = "list" -> Ok(L(x.v))
      [] x.t = "dict" -> Ok(L([i \in 1..Len(x.v) |-> x.v[i].k]))
      [] x.t = "str" -> Ok(L([i \in 1..Len(x.v) |-> S(<<x.v[i]>>)]))
      [] OTHER -> Raise("TypeError")

\* x[0] for a truthy x
PyIndex0(x) ==
    CASE x.t = "list" -> Ok(x.v[1])
      [] x.t = "str" -> Ok(S(<<x.v[1]>>))
      [] x.t = "dict" ->
            IF HasKey(x, N(0)) THEN Ok(Lookup(x, N(0), Null))
            ELSE Raise("KeyError")
      [] OTHER -> Raise("TypeError")

KeyGuardrail == S(W("lakera_guardrail_response"))
KeyBreakdown == S(W("breakdown"))
KeyDetected == S(W("detected"))
KeyDetectorType == S(W("detector_type"))
KeyErrorObj == S(W("error"))
KeyMessage == S(W("message"))
KeyLegacy == S(W("lakera_ai_response"))
KeyResults == S(W("results"))
KeyFlagged == S(W("flagged"))
KeyCategories == S(W("categories"))
KeyCategoryScores == S(W("category_scores"))
KeyChoices == S(W("choices"))
KeyContent == S(W("content"))

(***************************************************************************)
(* ProxyClient.chat_completion: the error branch.                          *)
(***************************************************************************)
\* The loop over `breakdown': detector types of the detected entries.
RECURSIVE CollectDetected(_, _)

\* Mutant: the loop without its `if detector.get("detected", False)'.
RECURSIVE CollectEveryEntry(_, _)
CollectEveryEntry(items, acc) ==
    IF items = <<>> THEN Ok(L(acc))
    ELSE IF Head(items).t # "dict" THEN Raise("AttributeError")
    ELSE CollectEveryEntry(Tail(items),
             Append(acc, Lookup(Head(items), KeyDetectorType,
                                S(W("unknown")))))

CollectDetected(items, acc) ==
    IF items = <<>> THEN Ok(L(acc))
    ELSE LET detector == Head(items)
         IN  IF detector.t # "dict" THEN Raise("AttributeError")
             ELSE IF Truthy(Lookup(detector, KeyDetected, B(FALSE)))
             THEN CollectDetected(Tail(items),
                      Append(acc, Lookup(detector, KeyDetectorType,
                                         S(W("unknown")))))
             ELSE CollectDetected(Tail(items), acc)

\* breakdown = lakera_response.get("breakdown", []) and the loop over it
ExtractBreakdown(lakera_response) ==
    LET breakdown == PyGet(lakera_response, KeyBreakdown, L(<<>>))
        it == PyIter(breakdown.val)
    IN  IF breakdown.exc # "none" THEN Raise(breakdown.exc)
        ELSE IF it.exc # "none" THEN Raise(it.exc)
        ELSE CollectDetected(it.val.v, <<>>)

\* The state of the extraction: the exception raised (if any), the
\* violations found, the last value of lakera_response and category_scores,
\* and the decoder that produced parsed_error.
Found(exc, violations, lakera_response, category_scores, via) ==
    [exc |-> exc, violations |-> violations,
     lakera_response |-> lakera_response,
     category_scores |-> category_scores, via |-> via]

Failed(exc) == Found(exc, <<>>, Null, Null, "none")

\* The violations found in lakera_response, or the exception of the loop.
FoundIn(lakera_response, found, via) ==
    IF found.exc # "none" THEN Failed(found.exc)
    ELSE Found("none", found.val.v, lakera_response, Null, via)

\* Format 1: lakera_guardrail_response at the top level.
Format1(error_data) ==
    LET lakera_response == PyGet(error_data, KeyGuardrail, EmptyDict)
    IN  IF lakera_response.exc # "none" THEN Failed(lakera_response.exc)
        ELSE FoundIn(lakera_response.val,
                     ExtractBreakdown(lakera_response.val), "none")

\* Mutant: json.loads alone, without the ast.literal_eval fallback.
ParseErrorMsgJsonOnly(error_msg) ==
    LET j == JsonLoads(error_msg)
    IN  IF j.exc = "none" THEN [exc |-> "none", val |-> j.val, via |-> "json"]
        ELSE [exc |-> "none", val |-> Null, via |-> "none"]

\* parsed_error, given what json.loads (j) and ast.literal_eval (l) do with
\* the text: the second is consulted only when the first has raised, and its
\* ValueError and SyntaxError leave parsed_error = None.
FirstDecoded(j, l) ==
    IF j.exc = "none" THEN [exc |-> "none", val |-> j.val, via |-> "json"]
    ELSE IF l.exc = "none"
    THEN [exc |-> "none", val |-> l.val, via |-> "literal"]
    ELSE IF l.exc \in {"ValueError", "SyntaxError"}
    THEN [exc |-> "none", val |-> Null, via |-> "none"]
    ELSE [exc |-> l.exc, val |-> Null, via |-> "none"]

\* Lines 94-103: json.loads first, then ast.literal_eval.
ParseErrorMsg(error_msg) ==
    FirstDecoded(JsonLoads(error_msg), LiteralEval(error_msg))

\* error_msg of line 90
ErrorMsgOf(error_obj) ==
    IF error_obj.t = "dict" THEN Lookup(error_obj, KeyMessage, EmptyStr)
    ELSE S(PyStr(error_obj))

\* Lines 105-112: the guardrail response inside parsed_error.
ScanParsed(parsed) ==
    IF parsed.exc # "none" THEN Failed(parsed.exc)
    ELSE IF ~(Truthy(parsed.val) /\ parsed.val.t = "dict")
    THEN Found("none", <<>>, Null, Null, parsed.via)
    ELSE IF ~HasKey(parsed.val, KeyGuardrail)
    THEN Found("none", <<>>, Null, Null, parsed.via)
    ELSE FoundIn(Lookup(parsed.val, KeyGuardrail, EmptyDict),
                 ExtractBreakdown(Lookup(parsed.val, KeyGuardrail, EmptyDict)),
                 parsed.via)

\* Lines 93-112, given error_msg.
ScanMessage(error_msg) ==
    IF error_msg.t # "str" THEN Found("none", <<>>, Null, Null, "none")
    ELSE ScanParsed(ParseErrorMsg(error_msg.v))

\* Format 2: the guardrail response serialised in error.message.
Format2(error_obj) == ScanMessage(ErrorMsgOf(error_obj))

\* violations = [cat for cat, flagged in categories.items() if flagged]
RECURSIVE FlaggedCategories(_)
FlaggedCategories(entries) ==
    IF entries = <<>> THEN <<>>
    ELSE (IF Truthy(Head(entries).v) THEN <<Head(entries).k>> ELSE <<>>)
         \o FlaggedCategories(Tail(entries))

\* Format 3: error.lakera_ai_response, tried when error is a mapping and
\* format 2 found nothing; `prev' is the state format 2 left.
Format3(error_obj, prev) ==
    LET lakera_response == Lookup(error_obj, KeyLegacy, EmptyDict)
        results == PyGet(lakera_response, KeyResults, L(<<>>))
        first == PyIndex0(results.val)
        flagged == PyGet(first.val, KeyFlagged, Null)
        categories == Lookup(first.val, KeyCategories, EmptyDict)
        category_scores == Lookup(first.val, KeyCategoryScores, EmptyDict)
        keep == Found("none", <<>>, lakera_response, Null, prev.via)
    IN  IF prev.exc # "none" THEN prev
        ELSE IF ~(error_obj.t = "dict" /\ prev.violations = <<>>) THEN prev
        ELSE IF ~Truthy(lakera_response) THEN keep
        ELSE IF results.exc # "none" THEN Failed(results.exc)
        ELSE IF ~Truthy(results.val) THEN keep
        ELSE IF first.exc # "none" THEN Failed(first.exc)
        ELSE IF flagged.exc # "none" THEN Failed(flagged.exc)
        ELSE IF ~Truthy(flagged.val) THEN keep
        ELSE IF categories.t # "dict" THEN Failed("AttributeError")
        ELSE Found("none", FlaggedCategories(categories.v), lakera_response,
                   category_scores, prev.via)

\* Lines 88-122: the elif branch, format 2 and then format 3.
NestedFormats(error_obj) == Format3(error_obj, Format2(error_obj))

\* Lines 75-122: the if / elif over the formats.
ExtractViolations(error_data) ==
    LET direct == PyContains(error_data, KeyGuardrail)
        nested == PyContains(error_data, KeyErrorObj)
        error_obj == PyGet(error_data, KeyErrorObj, EmptyDict)
    IN  IF direct.exc # "none" THEN Failed(direct.exc)
        ELSE IF direct.val.v THEN Format1(error_data)
        ELSE IF nested.exc # "none" THEN Failed(nested.exc)
        ELSE IF ~nested.val.v THEN Found("none", <<>>, Null, Null, "none")
        ELSE IF error_obj.exc # "none" THEN Failed(error_obj.exc)
        ELSE NestedFormats(error_obj.val)

(***************************************************************************)
(* The errors raised, and what chat_completion ends with.  An outcome is   *)
(* kind = "return" with the returned value, or the exception type raised   *)
(* with the attributes the exception object carries.                       *)
(***************************************************************************)
Outcome(kind, msg, violations, category_scores, lakera_response, value, via) ==
    [kind |-> kind, msg |-> msg, violations |-> violations,
     category_scores |-> category_scores,
     lakera_response |-> lakera_response, value |-> value, via |-> via]

Returned(value) == Outcome("return", <<>>, <<>>, EmptyDict, Null, value, "none")

\* An exception that carries only a message (APIError, or any other type).
Raised(kind, msg) == Outcome(kind, msg, <<>>, EmptyDict, Null, Null, "none")

APIError(msg) == Raised("APIError", msg)

\* GuardrailViolationError.__init__; an argument left out is None (Null).
GuardrailViolationError(message, violations, categories, category_scores, lakera_response, via) ==
    LET given == IF Truthy(violations) THEN violations.v ELSE <<>>
        cats == IF Truthy(categories) THEN categories ELSE EmptyDict
        scores == IF Truthy(category_scores) THEN category_scores
                  ELSE EmptyDict
    IN  Outcome("GuardrailViolationError", message,
                IF given = <<>> /\ Truthy(cats)
                THEN FlaggedCategories(cats.v) ELSE given,
                scores, lakera_response, Null, via)

GuardrailMessage ==
    W("LiteLLM has flagged this message due to policy violations")

StatusText(status) == W(ToString(status))

\* f"API error ({response.status_code}): {detail}"
ApiErrorText(status, detail) ==
    W("API error (") \o StatusText(status) \o W("): ") \o detail

\* Lines 132-139: the generic error built from error_data.
GenericError(status, error_data) ==
    LET error_obj == PyGet(error_data, KeyErrorObj, EmptyDict)
        error_msg ==
            IF error_obj.val.t = "dict"
            THEN Lookup(error_obj.val, KeyMessage, S(PyStr(error_obj.val)))
            ELSE IF error_obj.val.t # "str"
            THEN S(PyStr(Lookup(error_data, KeyErrorObj,
                                S(W("Unknown error")))))
            ELSE error_obj.val
    IN  IF error_obj.exc # "none" THEN Raised(error_obj.exc, <<>>)
        ELSE APIError(ApiErrorText(status, PyStr(error_msg)))

\* Lines 71-139: the body of the try block, given the decoded body.
RaiseFor(status, error_data, found) ==
    IF found.exc # "none" THEN Raised(found.exc, <<>>)
    ELSE IF found.violations # <<>>
    THEN GuardrailViolationError(GuardrailMessage, L(found.violations),
                                 Null, Null, found.lakera_response, found.via)
    ELSE [GenericError(status, error_data) EXCEPT !.via = found.via]

TryBody(status, error_data) ==
    RaiseFor(status, error_data, ExtractViolations(error_data))

\* Lines 140-143: the except clauses.
CaughtByHandler == {"JSONDecodeError", "KeyError", "AttributeError"}

HandleError(response, raised) ==
    IF raised.kind \in CaughtByHandler
    THEN [APIError(ApiErrorText(response.status, response.text))
            EXCEPT !.via = raised.via]
    ELSE raised

\* Which statuses take the error branch (line 70).
IsErrorStatus(status) == status # 200

\* A response is [net, status, text]: net = FALSE when requests.post raised
\* instead of returning a response.
\* Lines 69-145, given what response.json() does (decoded).
HandleResponse(response, decoded) ==
    IF ~response.net THEN Raised("ConnectionError", <<>>)
    ELSE IF IsErrorStatus(response.status)
    THEN HandleError(response,
             IF decoded.exc # "none" THEN Raised(decoded.exc, <<>>)
             ELSE TryBody(response.status, decoded.val))
    ELSE IF decoded.exc # "none" THEN Raised(decoded.exc, <<>>)
    ELSE Returned(decoded.val)

chat_completion(response) == HandleResponse(response, JsonLoads(response.text))

(***************************************************************************)
(* GuardrailViolationError: display names and __str__.                     *)
(***************************************************************************)
\* A code such as pii/email is the text pii, /, email.
Code(chunks) == [i \in 1..Len(chunks) |-> T(chunks[i])]

VIOLATION_NAMES ==
    << <<Code(<<"moderated", "_", "content", "/", "crime">>),
         W("Crime-related content")>>,
       <<Code(<<"moderated", "_", "content", "/", "hate">>),
         W("Hate speech")>>,
       <<Code(<<"moderated", "_", "content", "/", "profanity">>),
         W("Profanity")>>,
       <<Code(<<"moderated", "_", "content", "/", "sexual">>),
         W("Sexual content")>>,
       <<Code(<<"moderated", "_", "content", "/", "violence">>),
         W("Violence")>>,
       <<Code(<<"moderated", "_", "content", "/", "weapons">>),
         W("Weapons")>>,
       <<Code(<<"pii", "/", "address">>), W("Personal address")>>,
       <<Code(<<"pii", "/", "credit", "_", "card">>),
         W("Credit card number")>>,
       <<Code(<<"pii", "/", "email">>), W("Email address")>>,
       <<Code(<<"pii", "/", "iban", "_", "code">>), W("IBAN code")>>,
       <<Code(<<"pii", "/", "ip", "_", "address">>), W("IP address")>>,
       <<Code(<<"pii", "/", "name">>), W("Personal name")>>,
       <<Code(<<"pii", "/", "phone", "_", "number">>), W("Phone number")>>,
       <<Code(<<"pii", "/", "us", "_", "social", "_", "security", "_",
                "number">>), W("Social Security Number")>>,
       <<Code(<<"prompt", "_", "attack">>), W("Prompt injection attack")>>,
       <<Code(<<"jailbreak">>), W("Jailbreak attempt")>>,
       <<Code(<<"prompt", "_", "injection">>), W("Prompt injection")>>,
       <<Code(<<"unknown", "_", "links">>), W("Unknown links")>> >>

IsKnownCode(toks) ==
    \E i \in 1..Len(VIOLATION_NAMES) : VIOLATION_NAMES[i][1] = toks

KnownName(toks) ==
    VIOLATION_NAMES[CHOOSE i \in 1..Len(VIOLATION_NAMES) :
                        VIOLATION_NAMES[i][1] = toks][2]

\* str.replace(old, new), for an `old' that is a chunk of its own
Replace(toks, old, new) ==
    [i \in 1..Len(toks) |->
        IF toks[i].c = old THEN [c |-> new, e |-> toks[i].e] ELSE toks[i]]

\* str.title() on the words that occur in codes
Capitalised ==
    [w \in {"unknown", "custom", "check", "hate", "violence", "pii",
            "email", "jailbreak", "links"} |->
        CASE w = "unknown" -> "Unknown"
          [] w = "custom" -> "Custom"
          [] w = "check" -> "Check"
          [] w = "hate" -> "Hate"
          [] w = "violence" -> "Violence"
          [] w = "pii" -> "Pii"
          [] w = "email" -> "Email"
          [] w = "jailbreak" -> "Jailbreak"
          [] w = "links" -> "Links"]

Title(toks) ==
    [i \in 1..Len(toks) |->
        IF toks[i].c \in DOMAIN Capitalised
        THEN [c |-> Capitalised[toks[i].c], e |-> toks[i].e]
        ELSE toks[i]]

\* Mutant: the table of names is never consulted.
FormatNameNoTable(violation_type) ==
    IF violation_type.t # "str" THEN Raise("AttributeError")
    ELSE Ok(S(Title(Replace(Replace(violation_type.v, "_", " "),
                            "/", " - "))))

\* GuardrailViolationError._format_violation_name
format_violation_name(violation_type) ==
    IF ~Hashable(violation_type) THEN Raise("TypeError")
    ELSE IF violation_type.t = "str" /\ IsKnownCode(violation_type.v)
    THEN Ok(S(KnownName(violation_type.v)))
    ELSE IF violation_type.t # "str" THEN Raise("AttributeError")
    ELSE Ok(S(Title(Replace(Replace(violation_type.v, "_", " "),
                            "/", " - "))))

\* f"{score:.1%}": a float is kept in thousandths, so one decimal is exact.
Percent(score) ==
    CASE score.t = "float" ->
            Ok(S(W(ToString(score.v \div 10) \o "." \o ToString(score.v % 10)
                   \o "%")))
      [] score.t = "int" -> Ok(S(W(ToString(100 * score.v) \o ".0%")))
      [] score.t = "bool" ->
            Ok(S(W(IF score.v THEN "100.0%" ELSE "0.0%")))
      [] score.t = "str" -> Raise("ValueError")
      [] OTHER -> Raise("TypeError")

Confidence(percent) == W(" (confidence: ") \o percent \o W(")")

Remediation ==
    W("\n\nPlease revise your message to comply with the content safety policy.")

\* The loop of __str__ over self.violations.
RECURSIVE RenderViolations(_, _)
RenderViolations(violations, category_scores) ==
    IF violations = <<>> THEN Ok(S(<<>>))
    ELSE LET violation == Head(violations)
             name == format_violation_name(violation)
             scored == Truthy(category_scores)
                       /\ HasKey(category_scores, violation)
             percent == Percent(Lookup(category_scores, violation, Null))
             rest == RenderViolations(Tail(violations), category_scores)
         IN  IF name.exc # "none" THEN Raise(name.exc)
             ELSE IF scored /\ percent.exc # "none" THEN Raise(percent.exc)
             ELSE IF rest.exc # "none" THEN Raise(rest.exc)
             ELSE Ok(S(W("\n  * ") \o name.val.v
                       \o (IF scored THEN Confidence(percent.val.v)
                           ELSE <<>>)
                       \o rest.val.v))

\* GuardrailViolationError.__str__ of a raised error
ErrorStr(err) ==
    LET body == RenderViolations(err.violations, err.category_scores)
    IN  IF err.violations = <<>> THEN Ok(S(err.msg \o Remediation))
        ELSE IF body.exc # "none" THEN Raise(body.exc)
        ELSE Ok(S(err.msg \o W("\n\nDetected policy violations:")
                  \o body.val.v \o Remediation))

(***************************************************************************)
(* ChatSession: the history and chat / reset.                              *)
(***************************************************************************)
Msg(role, content) == [role |-> role, content |-> content]

\* The default of ChatSession.__init__ and the list chat_command passes.
LakeraGuard == L(<<S(W("lakera-guard"))>>)

\* chat_command: the guardrails argument it constructs the session with.
CliGuardrails(no_guardrails) ==
    IF ~no_guardrails THEN LakeraGuard ELSE L(<<>>)

\* ChatSession.__init__: self.guardrails = guardrails or ["lakera-guard"]
SessionGuardrails(guardrails) ==
    IF Truthy(guardrails) THEN guardrails ELSE LakeraGuard

ModelName == S(W("gpt-3.5-turbo"))

MsgValue(m) == D(<<KV("role", S(W(m.role))), KV("content", m.content)>>)

\* The request body chat_completion posts: `guardrails' only `if guardrails'.
Payload(model, history, guardrails) ==
    D(<<KV("model", model),
        KV("messages", L([i \in 1..Len(history) |-> MsgValue(history[i])])),
        KV("stream", B(FALSE))>>
      \o (IF Truthy(guardrails) THEN <<KV("guardrails", guardrails)>>
          ELSE <<>>))

HasSystem(history) ==
    \E i \in 1..Len(history) : history[i].role = "system"

\* Lines 72-78 of chat.py: the reply taken from a returned response.
ExtractReply(response) ==
    LET choices == PyGet(response, KeyChoices, L(<<>>))
        first == PyIndex0(choices.val)
        message == PyGet(first.val, KeyMessage, EmptyDict)
        content == PyGet(message.val, KeyContent, EmptyStr)
    IN  IF choices.exc # "none" THEN Raised(choices.exc, <<>>)
        ELSE IF ~Truthy(choices.val)
        THEN APIError(W("No response choices in API response"))
        ELSE IF first.exc # "none" THEN Raised(first.exc, <<>>)
        ELSE IF message.exc # "none" THEN Raised(message.exc, <<>>)
        ELSE IF content.exc # "none" THEN Raised(content.exc, <<>>)
        ELSE IF ~Truthy(content.val)
        THEN APIError(W("Empty response from assistant"))
        ELSE Returned(content.val)

\* Mutant: the except clause re-raises without popping.
PopNothing(history) == history

\* The except clause of chat: the blocked user message is popped.
PopBlocked(history) ==
    IF history # <<>> /\ history[Len(history)].role = "user"
    THEN SubSeq(history, 1, Len(history) - 1)
    ELSE history

\* ChatSession.chat: the history it leaves and what it ends with.
\* Lines 57-62: the system message (once) and the user message are added.
WithRequest(history, user_message, system_message) ==
    Append(IF Truthy(system_message) /\ ~HasSystem(history)
           THEN Append(history, Msg("system", system_message))
           ELSE history,
           Msg("user", user_message))

\* Mutant: the reply is added to the history whatever it is.
AnswerAlways(sent, reply) ==
    [messages |-> Append(sent, Msg("assistant", reply.value)),
     outcome |-> reply]

\* Lines 77-83: the reply is added, or the error of an empty one propagates.
Answer(sent, reply) ==
    IF reply.kind # "return" THEN [messages |-> sent, outcome |-> reply]
    ELSE [messages |-> Append(sent, Msg("assistant", reply.value)),
          outcome |-> reply]

\* Lines 64-89, given what chat_completion ended with.
Conclude(sent, completion) ==
    IF completion.kind = "GuardrailViolationError"
    THEN [messages |-> PopBlocked(sent), outcome |-> completion]
    ELSE IF completion.kind # "return"
    THEN [messages |-> sent, outcome |-> completion]
    ELSE Answer(sent, ExtractReply(completion.value))

\* ChatSession.chat: the history it leaves and what it ends with.
chat(history, user_message, system_message, response) ==
    Conclude(WithRequest(history, user_message, system_message),
             chat_completion(response))

(***************************************************************************)
(* Inputs: the responses the gateway can give.                             *)
(***************************************************************************)
MaxBreakdown == 2
MaxHistory == 6

Statuses == {200, 201, 400, 500}

SeqsUpTo(set, n) == UNION {[1..k -> set] : k \in 0..n}

DetectorTypes ==
    {Code(<<"pii", "/", "email">>), Code(<<"jailbreak">>),
     Code(<<"custom", "_", "check">>)}

Entry(type, detected) ==
    D(<<KV("detector_type", S(type)), KV("detected", B(detected))>>)

Breakdowns ==
    SeqsUpTo({Entry(ty, d) : ty \in DetectorTypes, d \in BOOLEAN},
             MaxBreakdown)

\* The guardrail response of forms 1 and 2.
Form1(breakdown) ==
    D(<<KV("lakera_guardrail_response", D(<<KV("breakdown", L(breakdown))>>))>>)

Form1Payloads == {Form1(b) : b \in Breakdowns}

\* Form 2: the payload serialised in error.message.
Nested(text) == D(<<KV("error", D(<<KV("message", S(text))>>))>>)

\* Form 3: the legacy moderation response under error.
Category(code, flagged) == [k |-> S(code), v |-> B(flagged)]
Score(code, p) == [k |-> S(code), v |-> F(p)]

CategorySets ==
    {D(<<Category(Code(<<"hate">>), a),
         Category(Code(<<"pii", "/", "email">>), b)>>) : a, b \in BOOLEAN}

ScoreSets ==
    {D(<<Score(Code(<<"hate">>), 953),
         Score(Code(<<"pii", "/", "email">>), 120)>>),
     D(<<Score(Code(<<"hate">>), 953)>>)}

LegacyResult(flagged, categories) ==
    D(<<KV("flagged", B(flagged)), KV("categories", categories)>>)

ScoredResult(flagged, categories, scores) ==
    D(<<KV("flagged", B(flagged)), KV("categories", categories),
        KV("category_scores", scores)>>)

LegacyResults ==
    {LegacyResult(f, c) : f \in BOOLEAN, c \in CategorySets}
    \cup {ScoredResult(f, c, s) :
            f \in BOOLEAN, c \in CategorySets, s \in ScoreSets}

LegacyError(result) ==
    D(<<KV("lakera_ai_response", D(<<KV("results", L(<<result>>))>>))>>)

Legacy(result) == D(<<KV("error", LegacyError(result))>>)

\* A body with both the direct form and the legacy form.
DirectAndLegacy(breakdown, result) ==
    D(<<KV("lakera_guardrail_response", D(<<KV("breakdown", L(breakdown))>>)),
        KV("error", LegacyError(result))>>)

ShortBreakdowns == {b \in Breakdowns : Len(b) <= 1}

Completion(content) ==
    D(<<KV("choices",
           L(<<D(<<KV("message",
                      D(<<KV("role", S(W("assistant"))),
                          KV("content", content)>>))>>)>>))>>)

\* Bodies of no guardrail form, well formed or not.
OtherBodies ==
    {Null, N(5), B(TRUE), L(<<>>), L(<<S(W("error"))>>), S(W("abc")),
     S(W("error")), EmptyDict,
     D(<<KV("detail", S(W("boom")))>>),
     D(<<KV("error", S(Code(<<"internal", "failure">>)))>>),
     D(<<KV("error", N(5))>>),
     D(<<KV("error", Null)>>),
     D(<<KV("error", L(<<N(1), S(W("a"))>>))>>),
     D(<<KV("error", D(<<KV("code", N(7))>>))>>),
     D(<<KV("error", D(<<KV("message", S(W("rate limited"))),
                         KV("code", N(7))>>))>>),
     D(<<KV("error", D(<<KV("message", Null)>>))>>),
     D(<<KV("error", D(<<KV("message", D(<<KV("a", N(1))>>))>>))>>),
     Nested(Code(<<"not", "{", "json">>)),
     Nested(Code(<<"{", "[", "1", "]", ":", "5", "}">>)),
     Nested(Code(<<"{", "'", "a", "'", ":", "true", "}">>)),
     Nested(JsonDumps(D(<<KV("a", N(1))>>))),
     D(<<KV("lakera_guardrail_response", Null)>>),
     D(<<KV("lakera_guardrail_response", D(<<KV("breakdown", Null)>>))>>),
     D(<<KV("lakera_guardrail_response", D(<<KV("breakdown", N(5))>>))>>),
     D(<<KV("lakera_guardrail_response",
            D(<<KV("breakdown", L(<<S(W("x"))>>))>>))>>),
     D(<<KV("lakera_guardrail_response",
            D(<<KV("breakdown",
                   L(<<D(<<KV("detected", B(TRUE))>>)>>))>>))>>),
     Nested(JsonDumps(D(<<KV("lakera_guardrail_response",
                             D(<<KV("breakdown", Null)>>))>>))),
     D(<<KV("error", D(<<KV("lakera_ai_response",
                            D(<<KV("results", N(5))>>))>>))>>),
     D(<<KV("error", D(<<KV("lakera_ai_response",
                            D(<<KV("results", L(<<>>))>>))>>))>>),
     D(<<KV("error", D(<<KV("lakera_ai_response",
                            D(<<KV("results",
                                   D(<<KV("a", N(1))>>))>>))>>))>>),
     D(<<KV("error", LegacyError(D(<<KV("flagged", B(TRUE)),
                                     KV("categories", L(<<N(1)>>))>>)))>>),
     Completion(S(W("Hello"))), Completion(EmptyStr),
     D(<<KV("choices", L(<<>>))>>)}

Bodies ==
    Form1Payloads
    \cup {Nested(JsonDumps(p)) : p \in Form1Payloads}
    \cup {Nested(PyRepr(p)) : p \in Form1Payloads}
    \cup {D(<<KV("error", S(PyRepr(p)))>>) : p \in Form1Payloads}
    \cup {Legacy(r) : r \in LegacyResults}
    \cup {DirectAndLegacy(b, r) : b \in ShortBreakdowns, r \in LegacyResults}
    \cup OtherBodies

\* Response texts that are not JSON.
RawTexts ==
    {<<>>, Code(<<"Internal", "Server", "Error">>),
     Code(<<"{", "\"", "error", "\"", ":">>),
     PyRepr(Form1(<<Entry(Code(<<"jailbreak">>), TRUE)>>))}

Texts == {JsonDumps(b) : b \in Bodies} \cup RawTexts

Response(status, text) == [net |-> TRUE, status |-> status, text |-> text]

\* requests.post raised: no response at all.
NoResponse == [net |-> FALSE, status |-> 0, text |-> <<>>]

Responses == {Response(st, tx) : st \in Statuses, tx \in Texts}

(***************************************************************************)
(* ProxyManager: the supervisor of the gateway process.  The operating     *)
(* system is a table of processes; a process is absent, alive, doomed (a   *)
(* fatal signal is pending) or exited.  `serving' says that it holds the   *)
(* port and answers the health endpoint, `marker' that its command line    *)
(* contains proxy_cli, `signalled' that the supervisor has signalled it,   *)
(* `out' how many lines wait in its output pipe, `own' that this           *)
(* supervisor spawned it.                                                  *)
(***************************************************************************)
MaxProcs == 2
MaxOut == 1
DefaultTimeout == 2

Pids == 1..MaxProcs

\* self.process = None
NoProcess == 0

Proc(state, serving, marker, signalled, out, own) ==
    [state |-> state, serving |-> serving, marker |-> marker,
     signalled |-> signalled, out |-> out, own |-> own]

Absent == Proc("absent", FALSE, FALSE, FALSE, 0, FALSE)

\* subprocess.Popen(cmd): the command names proxy_cli only when run from
\* the cloned source.
Spawned(install) ==
    Proc("alive", FALSE, install = "source", FALSE, 0, TRUE)

Exists(pr) == pr.state \in {"alive", "doomed"}

\* GET /health is answered with 200 by the process that holds the port.
Healthy(ps) == \E p \in Pids : Exists(ps[p]) /\ ps[p].serving

Answered(status) == [net |-> "ok", status |-> status]

Unreachable(exc) == [net |-> exc, status |-> 0]

NoProbe == Unreachable("none")

\* What requests.get(health endpoint, timeout=2) can do.
Probes(ps) ==
    IF Healthy(ps) THEN {Answered(200)}
    ELSE {Answered(503), Unreachable("ConnectionError"),
          Unreachable("Timeout")}

\* Mutant: any answer counts as running.
IsRunningAnyAnswer(probe) == probe.net = "ok"

\* ProxyManager.is_running
is_running(probe) ==
    IF probe.net = "ok" THEN probe.status = 200 ELSE FALSE

\* ProxyClient.health_check
health_check(probe) ==
    IF probe.net = "ok" THEN probe.status = 200 ELSE FALSE

PyBool(b) == IF b THEN "True" ELSE "False"

\* Mutant: a missing tool is not caught.
CaughtByToolTimeoutOnly == {"TimeoutExpired"}

\* The exceptions the except clauses of stop() catch: around a whole tool
\* run (lsof, pgrep), and around the signals sent to one pid.
CaughtByTool == {"TimeoutExpired", "FileNotFoundError"}

CaughtByPid == {"ProcessLookupError", "PermissionError"}

\* What running lsof or pgrep can do.
ToolOutcomes == {"ok", "TimeoutExpired", "FileNotFoundError"}

\* psutil: imported and working, not installed, or failing in any way.
PsutilOutcomes == {"ok", "absent", "Exception"}

\* What terminating one listed process can do: it exits within the wait, it
\* survives the wait and is sent SIGKILL, the signal is refused, or the
\* process is gone by the time it is signalled.
KillOutcomes == {"exited", "doomed", "PermissionError", "ProcessLookupError"}

\* self.process.wait(timeout=5): the process exits within the wait, or the
\* wait raises TimeoutExpired.
HandleOutcomes == {"exited", "TimeoutExpired"}

\* Mutant: kill() is called whatever the wait did.
HandleCallsAlwaysKill(waited) == <<"terminate", "kill">>

\* Lines 152-158: terminate(), then kill() in the except clause of the wait.
HandleCalls(waited) ==
    IF waited = "TimeoutExpired" THEN <<"terminate", "kill">>
    ELSE <<"terminate">>

\* The held process after these calls and that wait.
HitHandle(pr, waited, calls) ==
    IF waited = "exited"
    THEN [pr EXCEPT !.state = "exited", !.serving = FALSE, !.signalled = TRUE]
    ELSE IF \E i \in 1..Len(calls) : calls[i] = "kill"
    THEN [pr EXCEPT !.state = "doomed", !.signalled = TRUE]
    ELSE [pr EXCEPT !.signalled = TRUE]

Hit(pr, how) ==
    CASE how = "exited" ->
            [pr EXCEPT !.state = "exited", !.serving = FALSE,
                       !.signalled = TRUE]
      [] how = "doomed" -> [pr EXCEPT !.state = "doomed", !.signalled = TRUE]
      [] how = "ProcessLookupError" ->
            [pr EXCEPT !.state = "exited", !.serving = FALSE]
      [] OTHER -> pr

\* The table after each listed process met its outcome.
HitAll(ps, how) ==
    [p \in Pids |-> IF p \in DOMAIN how THEN Hit(ps[p], how[p]) ELSE ps[p]]

\* stopped = True: some listed process was signalled without an error.
AnyStopped(how) == \E p \in DOMAIN how : how[p] \in {"exited", "doomed"}

\* Some listed process that served the health endpoint was killed.
KilledServing(ps, how) ==
    \E p \in DOMAIN how : how[p] \in {"exited", "doomed"} /\ ps[p].serving

\* os.getpid(): the supervisor's own process.
SelfPid == MaxProcs + 1

\* psutil.process_iter / pgrep -f proxy_cli: the processes named proxy_cli
ByMarker(ps) == {p \in Pids : Exists(ps[p]) /\ ps[p].marker}

\* lsof -ti :4000: the processes on the port
ByPort(ps) == {p \in Pids : Exists(ps[p]) /\ ps[p].serving}

\* The supervisor's own pid is in a listing when its own command line
\* matches, or when it holds a socket on the port itself.
Listed(pids, self_listed) ==
    pids \cup (IF self_listed THEN {SelfPid} ELSE {})

\* Lines 167-168 and 231: the own pid is passed over.
SkipSelf(pids) == pids \ {SelfPid}

\* Whom each strategy signals: psutil and pgrep pass over the own pid, the
\* loop over the lsof output (lines 202-203) takes every pid.
PsutilTargets(ps, h) == SkipSelf(Listed(ByMarker(ps), h.self_marker))

LsofTargets(ps, h) == Listed(ByPort(ps), h.self_on_port)

PgrepTargets(ps, h) == SkipSelf(Listed(ByMarker(ps), h.self_marker))

FreePids(ps) == {p \in Pids : ps[p].state = "absent"}

Min(a, b) == IF a < b THEN a ELSE b

(***************************************************************************)
(* State.  messages is ChatSession.messages; resp is the response the      *)
(* gateway gave to the last request; outcome is what the last call ended   *)
(* with ("pending" while the call has not completed).                      *)
(***************************************************************************)
VARIABLES messages, resp, outcome, no_guardrails, guardrails, payload

\* rendered is str(error) of the error in `outcome', once it was printed.
VARIABLES rendered

\* The supervisor: process is self.process (a pid, or NoProcess), procs the
\* processes of the host, host the installation (how litellm is installed,
\* whether the settings file exists), mgr the position of the supervisor in
\* the call it is executing with the locals of that call, ret what the last
\* call returned.
VARIABLES process, procs, host, mgr, ret

chatVars == <<messages, resp, outcome, no_guardrails, guardrails, payload, rendered>>

proxyVars == <<process, procs, host, mgr, ret>>

vars == <<messages, resp, outcome, no_guardrails, guardrails, payload, rendered, process, procs, host, mgr, ret>>

\* No call in progress.  `quiet' remembers that the last stop() killed the
\* process serving the health endpoint and nothing was spawned since; `calls'
\* are the calls stop() made on the process handle; pc = "dead" when the
\* supervisor has signalled its own process, `by' the strategy that did.
AtRest ==
    [pc |-> "idle", op |-> "none", wait |-> FALSE, timeout |-> 0,
     elapsed |-> 0, stopped |-> FALSE, nested |-> FALSE, spawned |-> NoProcess,
     killed |-> FALSE, quiet |-> FALSE, calls |-> <<>>, by |-> "none"]

NoReturn ==
    [op |-> "none", val |-> "none", inner |-> "none", path |-> "none",
     probe |-> NoProbe, spawned |-> NoProcess, wait |-> FALSE,
     exit |-> "none"]

\* A fresh ProxyManager on a host without gateway processes.
ProxyAtRest ==
    /\ process = NoProcess
    /\ procs = [p \in Pids |-> Absent]
    /\ host = [install |-> "package", config_exists |-> TRUE,
               self_marker |-> FALSE, self_on_port |-> FALSE]
    /\ mgr = AtRest
    /\ ret = NoReturn

\* The guardrails argument of a call or of a constructor: None, [], a list.
GuardrailArgs == {Null, L(<<>>), LakeraGuard}

Pending == Raised("pending", <<>>)

\* str(error) was not called.
NotRendered == Raise("pending")

\* ProxyClient.chat_completion applied to the response in flight.
Complete ==
    /\ outcome.kind = "pending"
    /\ outcome' = chat_completion(resp)
    /\ payload' = Payload(ModelName, messages, guardrails)
    /\ UNCHANGED <<messages, resp, no_guardrails, guardrails, rendered>>
    /\ UNCHANGED proxyVars

Init ==
    /\ messages = <<>>
    /\ resp \in Responses \cup {NoResponse}
    /\ outcome = Pending
    /\ no_guardrails = FALSE
    /\ guardrails \in GuardrailArgs
    /\ payload = Null
    /\ rendered = NotRendered
    /\ ProxyAtRest

Next == Complete

Spec == Init /\ [][Next]_vars

(***************************************************************************)
(* The chat session over a smaller set of responses, one of each kind.     *)
(***************************************************************************)
UserMessages == {S(W("my email is a@b.c"))}

\* system_message: None, empty, or a prompt
SystemMessages == {Null, EmptyStr, S(W("be brief"))}

ChatResponses ==
    {Response(200, JsonDumps(Completion(S(W("Hello"))))),
     Response(200, JsonDumps(Completion(EmptyStr))),
     Response(200, JsonDumps(D(<<KV("choices", L(<<>>))>>))),
     Response(200, JsonDumps(D(<<KV("id", S(W("cmpl-1")))>>))),
     Response(400, JsonDumps(Form1(<<Entry(Code(<<"pii", "/", "email">>),
                                           TRUE)>>))),
     Response(400, JsonDumps(Legacy(LegacyResult(TRUE,
         D(<<Category(Code(<<"hate">>), TRUE)>>))))),
     Response(500, JsonDumps(D(<<KV("error",
                                    S(Code(<<"internal", "failure">>)))>>))),
     Response(500, JsonDumps(Null)),
     NoResponse}

Chat(user_message, system_message, response) ==
    /\ Len(messages) + 3 <= MaxHistory
    /\ LET result == chat(messages, user_message, system_message, response)
       IN  /\ messages' = result.messages
           /\ outcome' = result.outcome
    /\ payload' = Payload(ModelName,
                          WithRequest(messages, user_message, system_message),
                          guardrails)
    /\ resp' = response
    /\ UNCHANGED <<no_guardrails, guardrails, rendered>>
    /\ UNCHANGED proxyVars

Reset ==
    /\ messages' = <<>>
    /\ outcome' = Returned(Null)
    /\ UNCHANGED <<resp, no_guardrails, guardrails, payload, rendered>>
    /\ UNCHANGED proxyVars

\* chat_command: the session is constructed from the command line.
InitChat ==
    /\ messages = <<>>
    /\ resp = NoResponse
    /\ outcome = Pending
    /\ no_guardrails \in BOOLEAN
    /\ guardrails = SessionGuardrails(CliGuardrails(no_guardrails))
    /\ payload = Null
    /\ rendered = NotRendered
    /\ ProxyAtRest

NextChat ==
    \/ \E u \in UserMessages, s \in SystemMessages, r \in ChatResponses :
            Chat(u, s, r)
    \/ Reset

SpecChat == InitChat /\ [][NextChat]_vars

(***************************************************************************)
(* Rendering: a GuardrailViolationError is constructed from the arguments  *)
(* its signature declares (violations: a list of codes or None,            *)
(* categories: a dict of code -> bool or None, category_scores: a dict of  *)
(* code -> float or None) and str() is applied to it.                      *)
(***************************************************************************)
MaxViolations == 2

\* Two codes of the table, and three that are not in it.
ViolationCodes ==
    {Code(<<"pii", "/", "email">>), Code(<<"jailbreak">>),
     Code(<<"custom", "_", "check">>), Code(<<"pii", "/", "custom">>),
     Code(<<"hate">>)}

ViolationArgs ==
    {Null} \cup {L(v) : v \in SeqsUpTo({S(c) : c \in ViolationCodes},
                                       MaxViolations)}

CategoryArgs ==
    {Null,
     D(<<Category(Code(<<"hate">>), TRUE),
         Category(Code(<<"pii", "/", "email">>), FALSE),
         Category(Code(<<"custom", "_", "check">>), TRUE)>>)}

ScoreArgs ==
    {Null,
     D(<<Score(Code(<<"hate">>), 953),
         Score(Code(<<"pii", "/", "email">>), 120)>>)}

RenderedErrors ==
    {GuardrailViolationError(GuardrailMessage, v, c, s, Null, "none") :
        v \in ViolationArgs, c \in CategoryArgs, s \in ScoreArgs}

\* print_error: str(error)
Render ==
    /\ outcome.kind = "GuardrailViolationError"
    /\ rendered = NotRendered
    /\ rendered' = ErrorStr(outcome)
    /\ UNCHANGED <<messages, resp, outcome, no_guardrails, guardrails, payload>>
    /\ UNCHANGED proxyVars

InitRender ==
    /\ messages = <<>>
    /\ resp = NoResponse
    /\ outcome \in RenderedErrors
    /\ no_guardrails = FALSE
    /\ guardrails = LakeraGuard
    /\ payload = Null
    /\ rendered = NotRendered
    /\ ProxyAtRest

NextRender == Render

SpecRender == InitRender /\ [][NextRender]_vars

(***************************************************************************)
(* The supervisor.  A call is issued when no call is in progress; its      *)
(* steps then run one at a time, and between them the gateway processes    *)
(* act on their own: they become ready, write output, exit, die.           *)
(***************************************************************************)
Timeouts == {0, DefaultTimeout}

Installs == {"source", "package", "missing"}

\* Mutant: ensure_running reports success whatever start() returned.
EnsureReturnTrue(started) == "True"

\* ensure_running: return self.start()
EnsureReturn(started) == started

\* proxy_command, restart: exit code 0 if start() returned True, else 1;
\* an exception that leaves start() ends the interpreter with code 1.
RestartExit(started) == IF started = "True" THEN "0" ELSE "1"

\* The call returns val (or raises it, when val names an exception); the
\* command `proxy restart' ends with an exit code.
Return(m, val, path, probe) ==
    /\ ret' = [op |-> m.op,
               val |-> IF m.op = "ensure_running" /\ path = "start"
                       THEN EnsureReturn(val) ELSE val,
               inner |-> val, path |-> path, probe |-> probe,
               spawned |-> m.spawned, wait |-> m.wait,
               exit |-> IF m.op = "restart" THEN RestartExit(val)
                        ELSE "none"]
    /\ mgr' = [AtRest EXCEPT !.quiet = m.quiet]

Call(op, wait_for_ready, timeout) ==
    /\ mgr.pc = "idle"
    /\ mgr' = [AtRest EXCEPT !.pc = op, !.op = op, !.wait = wait_for_ready,
                             !.timeout = timeout, !.quiet = mgr.quiet]
    /\ ret' = NoReturn
    /\ UNCHANGED <<process, procs, host>>
    /\ UNCHANGED chatVars

CallStart(wait_for_ready, timeout) ==
    /\ FreePids(procs) # {}
    /\ Call("start", wait_for_ready, timeout)

CallStop == Call("stop", FALSE, 0)

CallEnsureRunning ==
    /\ FreePids(procs) # {}
    /\ Call("ensure_running", FALSE, 0)

CallIsRunning == Call("is_running", FALSE, 0)

\* proxy_command, restart (cli.py lines 56-68): a new ProxyManager, which
\* holds no handle, then stop(), then start() with its defaults.
CallRestart ==
    /\ mgr.pc = "idle"
    /\ process = NoProcess
    /\ FreePids(procs) # {}
    /\ mgr' = [AtRest EXCEPT !.pc = "stop", !.op = "restart", !.wait = TRUE,
                             !.timeout = DefaultTimeout, !.quiet = mgr.quiet]
    /\ ret' = NoReturn
    /\ UNCHANGED <<process, procs, host>>
    /\ UNCHANGED chatVars

CallHealthCheck == Call("health_check", FALSE, 0)

IsRunning ==
    /\ mgr.pc = "is_running"
    /\ \E probe \in Probes(procs) :
           Return(mgr, PyBool(is_running(probe)), "none", probe)
    /\ UNCHANGED <<process, procs, host>>
    /\ UNCHANGED chatVars

HealthCheck ==
    /\ mgr.pc = "health_check"
    /\ \E probe \in Probes(procs) :
           Return(mgr, PyBool(health_check(probe)), "none", probe)
    /\ UNCHANGED <<process, procs, host>>
    /\ UNCHANGED chatVars

\* ensure_running: start() with its defaults unless is_running()
EnsureRunning ==
    /\ mgr.pc = "ensure_running"
    /\ \E probe \in Probes(procs) :
           IF is_running(probe)
           THEN Return(mgr, "True", "running", probe)
           ELSE /\ mgr' = [mgr EXCEPT !.pc = "start", !.wait = TRUE,
                                      !.timeout = DefaultTimeout]
                /\ UNCHANGED ret
    /\ UNCHANGED <<process, procs, host>>
    /\ UNCHANGED chatVars

\* Mutant: the settings file is looked for before the health check.
StartPlanConfigFirst(running, config_exists, install) ==
    IF ~config_exists THEN "False"
    ELSE IF running THEN "True"
    ELSE IF install = "missing" THEN "FileNotFoundError"
    ELSE "spawn"

\* Lines 60-90: what start() does first: it returns True when the proxy is
\* running, False when the settings file is missing, and spawns the command
\* otherwise; Popen raises FileNotFoundError when the command is not there.
StartPlan(running, config_exists, install) ==
    IF running THEN "True"
    ELSE IF ~config_exists THEN "False"
    ELSE IF install = "missing" THEN "FileNotFoundError"
    ELSE "spawn"

\* Lines 60-92: the health check, the settings file, the spawn.
StartBegin ==
    /\ mgr.pc = "start"
    /\ \E probe \in Probes(procs) :
         IF StartPlan(is_running(probe), host.config_exists, host.install)
                # "spawn"
         THEN /\ Return(mgr, StartPlan(is_running(probe), host.config_exists,
                                       host.install), "start", probe)
              /\ UNCHANGED <<process, procs>>
         ELSE \E p \in FreePids(procs) :
                /\ \A q \in FreePids(procs) : p <= q
                /\ procs' = [procs EXCEPT ![p] = Spawned(host.install)]
                /\ process' = p
                /\ IF ~mgr.wait
                   THEN Return([mgr EXCEPT !.spawned = p, !.quiet = FALSE],
                               "True", "start", probe)
                   ELSE /\ mgr' = [mgr EXCEPT !.pc = "loop", !.spawned = p,
                                              !.quiet = FALSE, !.elapsed = 0]
                        /\ UNCHANGED ret
    /\ UNCHANGED host
    /\ UNCHANGED chatVars

\* Mutant: failure is returned without stop().
OnStartFailureNoStop(m) == [m EXCEPT !.pc = "stop_end", !.nested = TRUE]

\* Lines 125-141: the proxy did not start; stop() and return False.
OnStartFailure(m) == [m EXCEPT !.pc = "stop", !.nested = TRUE]

\* Lines 98-104: the loop condition and the poll of the process.
LoopTop ==
    /\ mgr.pc = "loop"
    /\ IF mgr.elapsed >= mgr.timeout
       THEN /\ mgr' = OnStartFailure(mgr)
            /\ UNCHANGED procs
       ELSE IF procs[process].state = "exited"
       THEN /\ mgr' = OnStartFailure(mgr)
            /\ procs' = [procs EXCEPT ![process].out = 0]
       ELSE /\ mgr' = [mgr EXCEPT !.pc = "readline"]
            /\ UNCHANGED procs
    /\ UNCHANGED <<process, host, ret>>
    /\ UNCHANGED chatVars

\* Line 108: readline() returns when a line is there or the pipe is closed.
ReadLine ==
    /\ mgr.pc = "readline"
    /\ procs[process].out > 0 \/ procs[process].state = "exited"
    /\ procs' = [procs EXCEPT ![process].out = IF @ > 0 THEN @ - 1 ELSE 0]
    /\ mgr' = [mgr EXCEPT !.pc = "probe"]
    /\ UNCHANGED <<process, host, ret>>
    /\ UNCHANGED chatVars

\* Lines 120-123: the health check of the round, then sleep(0.5).
Poll ==
    /\ mgr.pc = "probe"
    /\ \E probe \in Probes(procs) :
         IF is_running(probe)
         THEN Return(mgr, "True", "start", probe)
         ELSE /\ \E d \in 1..2 :
                   mgr' = [mgr EXCEPT !.pc = "loop",
                               !.elapsed = Min(@ + d, DefaultTimeout)]
              /\ UNCHANGED ret
    /\ UNCHANGED <<process, procs, host>>
    /\ UNCHANGED chatVars

\* Lines 151-159: the process this supervisor started.
StopHandle ==
    /\ mgr.pc = "stop"
    /\ IF process = NoProcess
       THEN /\ mgr' = [mgr EXCEPT !.pc = "psutil"]
            /\ UNCHANGED procs
       ELSE \E waited \in (IF Exists(procs[process]) THEN HandleOutcomes
                            ELSE {"exited"}) :
              /\ procs' = [procs EXCEPT ![process] =
                              HitHandle(@, waited, HandleCalls(waited))]
              /\ mgr' = [mgr EXCEPT !.pc = "psutil", !.stopped = TRUE,
                            !.calls = HandleCalls(waited),
                            !.killed = Exists(procs[process])
                                       /\ procs[process].serving]
    /\ process' = NoProcess
    /\ UNCHANGED <<host, ret>>
    /\ UNCHANGED chatVars

\* The listed processes are signalled one by one; an exception that the
\* clause around one pid does not catch ends the sweep.
\* os.kill(own pid, SIGTERM), then SIGKILL if that was ignored: the
\* supervisor is gone, after the pids listed before its own were signalled.
Sweep(targets, next) ==
    IF SelfPid \in targets
    THEN \E before \in SUBSET (targets \ {SelfPid}) :
           \E how \in [before -> KillOutcomes] :
             /\ procs' = HitAll(procs, how)
             /\ mgr' = [mgr EXCEPT !.pc = "dead", !.by = mgr.pc]
             /\ UNCHANGED ret
    ELSE \E how \in [targets -> KillOutcomes] :
           /\ procs' = HitAll(procs, how)
           /\ mgr' = [mgr EXCEPT !.pc = next,
                         !.stopped = @ \/ AnyStopped(how),
                         !.killed = @ \/ KilledServing(procs, how)]
           /\ UNCHANGED ret

Skip(next) ==
    /\ mgr' = [mgr EXCEPT !.pc = next]
    /\ UNCHANGED <<procs, ret>>

\* Lines 162-190: every process named proxy_cli, through psutil.
StopPsutil ==
    /\ mgr.pc = "psutil"
    /\ \E tool \in PsutilOutcomes :
         IF tool = "ok" THEN Sweep(PsutilTargets(procs, host), "lsof")
         ELSE Skip("lsof")
    /\ UNCHANGED <<process, host>>
    /\ UNCHANGED chatVars

\* A tool run: its listing is swept, its failure is caught or propagates.
RunTool(tool, targets, next) ==
    IF tool = "ok" THEN Sweep(targets, next)
    ELSE IF tool \in CaughtByTool THEN Skip(next)
    ELSE /\ Return(mgr, tool, "stop", NoProbe)
         /\ UNCHANGED procs

\* Lines 193-218: the processes on the port, through lsof.
StopLsof ==
    /\ mgr.pc = "lsof"
    /\ \E tool \in ToolOutcomes : RunTool(tool, LsofTargets(procs, host), "pgrep")
    /\ UNCHANGED <<process, host>>
    /\ UNCHANGED chatVars

\* Lines 221-245: every process named proxy_cli, through pgrep.
StopPgrep ==
    /\ mgr.pc = "pgrep"
    /\ \E tool \in ToolOutcomes : RunTool(tool, PgrepTargets(procs, host), "stop_end")
    /\ UNCHANGED <<process, host>>
    /\ UNCHANGED chatVars

\* Lines 247-253, and line 141 when stop() was called by start().
\* In `proxy restart' the stop() of line 64 is followed by start().
StopEnd ==
    /\ mgr.pc = "stop_end"
    /\ IF mgr.op = "restart" /\ ~mgr.nested
       THEN /\ mgr' = [mgr EXCEPT !.pc = "start", !.quiet = @ \/ mgr.killed,
                                  !.stopped = FALSE, !.killed = FALSE,
                                  !.calls = <<>>]
            /\ UNCHANGED ret
       ELSE Return([mgr EXCEPT !.quiet = @ \/ mgr.killed],
                   IF mgr.nested THEN "False" ELSE "None", "start", NoProbe)
    /\ UNCHANGED <<process, procs, host>>
    /\ UNCHANGED chatVars

\* The gateway processes.
BecomeReady(p) ==
    /\ procs[p].state = "alive"
    /\ ~Healthy(procs)
    /\ procs' = [procs EXCEPT ![p].serving = TRUE]
    /\ UNCHANGED <<process, host, mgr, ret>>
    /\ UNCHANGED chatVars

Output(p) ==
    /\ procs[p].state = "alive"
    /\ procs[p].out < MaxOut
    /\ procs' = [procs EXCEPT ![p].out = @ + 1]
    /\ UNCHANGED <<process, host, mgr, ret>>
    /\ UNCHANGED chatVars

Exit(p) ==
    /\ procs[p].state = "alive"
    /\ procs' = [procs EXCEPT ![p].state = "exited", ![p].serving = FALSE]
    /\ UNCHANGED <<process, host, mgr, ret>>
    /\ UNCHANGED chatVars

\* A process that was sent SIGKILL dies.
Die(p) ==
    /\ procs[p].state = "doomed"
    /\ procs' = [procs EXCEPT ![p].state = "exited", ![p].serving = FALSE]
    /\ UNCHANGED <<process, host, mgr, ret>>
    /\ UNCHANGED chatVars

\* The hosts on which the supervisor's own process is in no listing: its
\* command line does not name proxy_cli and it holds no socket on the port
\* (requests.get closes its connection before is_running returns).
Hosts ==
    [install : Installs, config_exists : BOOLEAN,
     self_marker : {FALSE}, self_on_port : {FALSE}]

\* The hosts on which a listing may contain the supervisor's own pid.
HostsSelf ==
    [install : {"source"}, config_exists : {TRUE},
     self_marker : BOOLEAN, self_on_port : BOOLEAN]

\* A gateway left by an earlier run of the tool may be serving.
ProxyInit(hosts) ==
    /\ messages = <<>>
    /\ resp = NoResponse
    /\ outcome = Pending
    /\ no_guardrails = FALSE
    /\ guardrails = LakeraGuard
    /\ payload = Null
    /\ rendered = NotRendered
    /\ process = NoProcess
    /\ \E marker \in BOOLEAN :
         procs \in {[p \in Pids |-> Absent],
                    [p \in Pids |-> IF p = 1
                                    THEN Proc("alive", TRUE, marker, FALSE, 0,
                                              FALSE)
                                    ELSE Absent]}
    /\ host \in hosts
    /\ mgr = AtRest
    /\ ret = NoReturn

InitProxy == ProxyInit(Hosts)

InitProxySelf == ProxyInit(HostsSelf)

\* The steps of the call in progress.
ManagerStep ==
    \/ IsRunning
    \/ HealthCheck
    \/ EnsureRunning
    \/ StartBegin
    \/ LoopTop
    \/ ReadLine
    \/ Poll
    \/ StopHandle
    \/ StopPsutil
    \/ StopLsof
    \/ StopPgrep
    \/ StopEnd

NextProxy ==
    \/ \E w \in BOOLEAN, t \in Timeouts : CallStart(w, t)
    \/ CallStop
    \/ CallRestart
    \/ CallEnsureRunning
    \/ CallIsRunning
    \/ CallHealthCheck
    \/ ManagerStep
    \/ \E p \in Pids : BecomeReady(p)
    \/ \E p \in Pids : Output(p)
    \/ \E p \in Pids : Exit(p)
    \/ \E p \in Pids : Die(p)

SpecProxy == InitProxy /\ [][NextProxy]_vars

SpecProxySelf == InitProxySelf /\ [][NextProxy]_vars

\* The supervisor keeps running the call it is in, and a process that was
\* sent SIGKILL dies; nothing makes a gateway write output, exit on its own
\* or become ready.
SpecProxyLive ==
    /\ SpecProxy
    /\ WF_vars(ManagerStep)
    /\ \A p \in Pids : WF_vars(Die(p))

(***************************************************************************)
(* Properties of chat_completion, checked under Spec.                      *)
(***************************************************************************)
Done == outcome.kind # "pending"

\* The call took the error branch.
ErrorResponse == resp.net /\ resp.status # 200

Decoded == JsonLoads(resp.text)
IsJson == Decoded.exc = "none"
Body == Decoded.val

IsGuardrail == outcome.kind = "GuardrailViolationError"

\* The value under a key of a mapping, Null when there is none.
Field(x, key) == IF x.t = "dict" THEN Lookup(x, key, Null) ELSE Null

IsEntry(e) ==
    /\ e.t = "dict"
    /\ Field(e, KeyDetectorType).t = "str"
    /\ Field(e, KeyDetected).t = "bool"

\* A guardrail response with a breakdown sequence of {detector_type, detected}.
IsGuardrailResponse(g) ==
    /\ g.t = "dict"
    /\ Field(g, KeyBreakdown).t = "list"
    /\ \A i \in 1..Len(Field(g, KeyBreakdown).v) :
            IsEntry(Field(g, KeyBreakdown).v[i])

IsDirectForm(body) ==
    /\ body.t = "dict"
    /\ HasKey(body, KeyGuardrail)
    /\ IsGuardrailResponse(Field(body, KeyGuardrail))

IsDetectedEntry(e) == Field(e, KeyDetected).v

\* The detector types of the detected entries, in breakdown order.
DetectedTypes(g) ==
    LET hits == SelectSeq(Field(g, KeyBreakdown).v, IsDetectedEntry)
    IN  [i \in 1..Len(hits) |-> Field(hits[i], KeyDetectorType)]

DirectYield(body) ==
    IF IsDirectForm(body) THEN DetectedTypes(Field(body, KeyGuardrail))
    ELSE <<>>

FirstResult(body) ==
    Field(Field(Field(body, KeyErrorObj), KeyLegacy), KeyResults).v[1]

IsLegacyForm(body) ==
    /\ Field(Field(Field(body, KeyErrorObj), KeyLegacy), KeyResults).t = "list"
    /\ Field(Field(Field(body, KeyErrorObj), KeyLegacy), KeyResults).v # <<>>
    /\ Field(FirstResult(body), KeyFlagged).t = "bool"
    /\ Field(FirstResult(body), KeyCategories).t = "dict"
    /\ \A i \in 1..Len(Field(FirstResult(body), KeyCategories).v) :
            Field(FirstResult(body), KeyCategories).v[i].v.t = "bool"

IsFlaggedCategory(entry) == entry.v.v

\* The categories flagged true of a flagged first result.
LegacyYield(body) ==
    IF IsLegacyForm(body) /\ Field(FirstResult(body), KeyFlagged).v
    THEN LET hits == SelectSeq(Field(FirstResult(body), KeyCategories).v,
                               IsFlaggedCategory)
         IN  [i \in 1..Len(hits) |-> hits[i].k]
    ELSE <<>>

\* C1: every non-200 response ends in GuardrailViolationError with a
\* non-empty violations list or in APIError; no other exception escapes.
C1_OnlyTypedErrors ==
    (Done /\ ErrorResponse) =>
        \/ outcome.kind = "APIError"
        \/ IsGuardrail /\ outcome.violations # <<>>

\* C2: for a non-200 body of the direct form, the violations of the raised
\* GuardrailViolationError are the detector_type values of the entries whose
\* detected is true, in breakdown order, the others omitted.
C2_DirectFormViolations ==
    (Done /\ ErrorResponse /\ IsJson /\ IsDirectForm(Body)) =>
        /\ IsGuardrail => outcome.violations = DirectYield(Body)
        /\ DirectYield(Body) # <<>> => IsGuardrail

\* A direct-form breakdown whose first entry is not detected and whose
\* second is: the error carries the second type alone.
C2_Witness ==
    /\ Done /\ ErrorResponse /\ IsJson /\ IsDirectForm(Body)
    /\ Len(Field(Field(Body, KeyGuardrail), KeyBreakdown).v) = 2
    /\ ~IsDetectedEntry(Field(Field(Body, KeyGuardrail), KeyBreakdown).v[1])
    /\ IsGuardrail
    /\ Len(outcome.violations) = 1

\* C3: the forms are tried in order until one yields violations, so APIError
\* is raised only when no form yields one; a direct form without a detected
\* entry next to a flagged legacy response gives the legacy categories.
C3_FirstFormThatYields ==
    (Done /\ ErrorResponse /\ IsJson) =>
        /\ outcome.kind = "APIError" =>
                DirectYield(Body) = <<>> /\ LegacyYield(Body) = <<>>
        /\ (IsDirectForm(Body) /\ DirectYield(Body) = <<>>
                /\ LegacyYield(Body) # <<>>) =>
                IsGuardrail /\ outcome.violations = LegacyYield(Body)

\* The texts of the bodies whose error.message is a form-1 payload, encoded
\* as JSON and as a Python literal, each with its payload.
JsonNestedCases ==
    {<<JsonDumps(Nested(JsonDumps(p))), p>> : p \in Form1Payloads}
LiteralNestedCases ==
    {<<JsonDumps(Nested(PyRepr(p))), p>> : p \in Form1Payloads}

\* Same error type and same violations, in the same order.
SameVerdict(a, b) == a.kind = b.kind /\ a.violations = b.violations

DirectOutcome(status, body) ==
    chat_completion(Response(status, JsonDumps(body)))

\* C4: a body whose error.message is a form-1 payload serialised as JSON or
\* as a Python literal gives the violations of the payload sent directly;
\* JSON is decoded by json.loads, and the literal decode runs only when
\* json.loads has failed.
C4_NestedSameAsDirect ==
    (Done /\ ErrorResponse) =>
        /\ \A c \in JsonNestedCases :
                resp.text = c[1] =>
                    /\ SameVerdict(outcome, DirectOutcome(resp.status, c[2]))
                    /\ outcome.via = "json"
        /\ \A c \in LiteralNestedCases :
                resp.text = c[1] =>
                    /\ SameVerdict(outcome, DirectOutcome(resp.status, c[2]))
                    /\ outcome.via = "literal"
        /\ (outcome.via = "literal" /\ Field(Body, KeyErrorObj).t = "dict") =>
                JsonLoads(Field(Field(Body, KeyErrorObj), KeyMessage).v).exc
                    # "none"

\* A Python-literal payload with two detected entries was decoded by the
\* literal decoder and gave both violations.
C4_Witness ==
    /\ Done /\ ErrorResponse
    /\ \E c \in LiteralNestedCases : resp.text = c[1]
    /\ outcome.via = "literal"
    /\ IsGuardrail
    /\ Len(outcome.violations) = 2

HasScores(body) ==
    IsLegacyForm(body)
    /\ Field(FirstResult(body), KeyCategoryScores).t = "dict"

\* name (confidence: NN.N%) of a violation that has a score
ScoredLine(violation, scores) ==
    format_violation_name(violation).val.v
    \o Confidence(Percent(Lookup(scores, violation, Null)).val.v)

\* C5: a flagged legacy body with category_scores raises an error that
\* carries the scores, and its message shows the confidence of every
\* violation that has one.
C5_ScoresCarried ==
    (Done /\ ErrorResponse /\ IsJson /\ ~IsDirectForm(Body)
          /\ HasScores(Body) /\ LegacyYield(Body) # <<>>) =>
        /\ IsGuardrail
        /\ outcome.category_scores = Field(FirstResult(Body), KeyCategoryScores)
        /\ \A i \in 1..Len(outcome.violations) :
              HasKey(Field(FirstResult(Body), KeyCategoryScores),
                     outcome.violations[i]) =>
                IsSubText(ScoredLine(outcome.violations[i],
                              Field(FirstResult(Body), KeyCategoryScores)),
                          ErrorStr(outcome).val.v)

\* C6: no response with a 2xx status yields a GuardrailViolationError.
C6_No2xxVerdict ==
    (Done /\ resp.net /\ resp.status \in 200..299) => ~IsGuardrail

\* A body of none of the forms: not JSON, not a mapping, or a mapping with
\* neither lakera_guardrail_response nor error.
MatchesNoForm ==
    \/ ~IsJson
    \/ Body.t # "dict"
    \/ ~HasKey(Body, KeyGuardrail) /\ ~HasKey(Body, KeyErrorObj)

\* C7: a non-200 response of none of the guardrail forms raises APIError
\* with the status code in its message.
C7_GenericErrorHasStatus ==
    (Done /\ ErrorResponse /\ MatchesNoForm) =>
        /\ outcome.kind = "APIError"
        /\ IsSubText(StatusText(resp.status), outcome.msg)

\* C8: the generic error text is error.message when there is one (or the
\* error itself when it is a string), and the raw body text when the body
\* has no error key or its error mapping has no message.
C8_GenericErrorText ==
    (Done /\ ErrorResponse /\ IsJson /\ Body.t = "dict"
          /\ outcome.kind = "APIError" /\ ~HasKey(Body, KeyGuardrail)) =>
        /\ Field(Body, KeyErrorObj).t = "str" =>
                IsSubText(Field(Body, KeyErrorObj).v, outcome.msg)
        /\ (Field(Body, KeyErrorObj).t = "dict"
                /\ Field(Field(Body, KeyErrorObj), KeyMessage).t = "str") =>
                IsSubText(Field(Field(Body, KeyErrorObj), KeyMessage).v,
                          outcome.msg)
        /\ (~HasKey(Body, KeyErrorObj)
                \/ (Field(Body, KeyErrorObj).t = "dict"
                    /\ ~HasKey(Field(Body, KeyErrorObj), KeyMessage))) =>
                IsSubText(resp.text, outcome.msg)

(***************************************************************************)
(* Properties of ChatSession, checked under SpecChat.                      *)
(***************************************************************************)
\* C9: when chat raises GuardrailViolationError, the history keeps every
\* message it had, in order, and holds no user message added by the call.
C9_BlockedTurnDiscarded ==
    [][outcome'.kind = "GuardrailViolationError" =>
          /\ Len(messages') >= Len(messages)
          /\ SubSeq(messages', 1, Len(messages)) = messages
          /\ \A i \in (Len(messages) + 1)..Len(messages') :
                messages'[i].role # "user"]_vars

\* A blocked call after an answered turn: the earlier turn is still there.
C9_Witness ==
    /\ outcome.kind = "GuardrailViolationError"
    /\ Len(messages) >= 2
    /\ messages[Len(messages)].role = "assistant"

\* C10: every user message in the history is immediately followed by an
\* assistant message.
C10_EveryUserTurnAnswered ==
    \A i \in 1..Len(messages) :
        messages[i].role = "user" =>
            i < Len(messages) /\ messages[i + 1].role = "assistant"

(***************************************************************************)
(* Properties of the request body, checked under SpecChat.                 *)
(***************************************************************************)
KeyGuardrails == S(W("guardrails"))

Sent == payload # Null

\* C11 (first half): the body has a `guardrails' field exactly when the
\* session's guardrail list is non-empty, and then the field is that list.
C11_FieldOnlyIfNonEmpty ==
    Sent => /\ HasKey(payload, KeyGuardrails) <=> Truthy(guardrails)
            /\ HasKey(payload, KeyGuardrails) =>
                   Lookup(payload, KeyGuardrails, Null) = guardrails

\* C11: the `guardrails' field is in the request body only when the guardrail
\* list is non-empty, and a session created with guardrails disabled
\* (--no-guardrails) sends every chat request without a `guardrails' field.
C11_DisabledSendsNoField ==
    /\ C11_FieldOnlyIfNonEmpty
    /\ (Sent /\ no_guardrails) => ~HasKey(payload, KeyGuardrails)

(***************************************************************************)
(* Properties of an empty completion, checked under SpecChat.              *)
(***************************************************************************)
\* The three empty payloads: no `choices', an empty `choices' list, a first
\* choice whose message has empty content.
NoChoices(b) == b.t = "dict" /\ ~HasKey(b, KeyChoices)

EmptyChoices(b) == b.t = "dict" /\ Lookup(b, KeyChoices, Null) = L(<<>>)

EmptyContent(b) ==
    /\ b.t = "dict"
    /\ Lookup(b, KeyChoices, Null).t = "list"
    /\ Lookup(b, KeyChoices, Null).v # <<>>
    /\ Lookup(b, KeyChoices, Null).v[1].t = "dict"
    /\ Lookup(Lookup(b, KeyChoices, Null).v[1], KeyMessage, Null).t = "dict"
    /\ Lookup(Lookup(Lookup(b, KeyChoices, Null).v[1], KeyMessage, Null),
              KeyContent, Null) = EmptyStr

EmptyCompletion(r) ==
    /\ r.net
    /\ r.status = 200
    /\ JsonLoads(r.text).exc = "none"
    /\ \/ NoChoices(JsonLoads(r.text).val)
       \/ EmptyChoices(JsonLoads(r.text).val)
       \/ EmptyContent(JsonLoads(r.text).val)

AssistantCount(history) ==
    Cardinality({i \in 1..Len(history) : history[i].role = "assistant"})

\* C20: a chat answered by a status-200 response with an empty completion
\* (no choices, empty choices, empty content of the first choice) ends with a
\* generic APIError that is no GuardrailViolationError and has no violations,
\* and adds no assistant message to the history.
C20_EmptyCompletionIsApiError ==
    [][(messages' # <<>> /\ EmptyCompletion(resp')) =>
          /\ outcome'.kind = "APIError"
          /\ outcome'.violations = <<>>
          /\ AssistantCount(messages') = AssistantCount(messages)
          /\ messages'[Len(messages')].role = "user"]_vars

\* An empty completion arrived in a conversation that already has a reply.
C20_Witness ==
    /\ EmptyCompletion(resp)
    /\ NoChoices(JsonLoads(resp.text).val)
    /\ outcome.kind = "APIError"
    /\ AssistantCount(messages) >= 1
    /\ messages[Len(messages)].role = "user"

(***************************************************************************)
(* Properties of the system message, checked under SpecChat.               *)
(***************************************************************************)
SystemPositions == {i \in 1..Len(messages) : messages[i].role = "system"}

\* C25 (first half): the history holds at most one system message.
C25_AtMostOneSystem == Cardinality(SystemPositions) <= 1

\* C25: after any sequence of chat and reset calls the history holds at most
\* one system message, and when it holds one it is the first message.
C25_OneSystemFirst ==
    /\ C25_AtMostOneSystem
    /\ SystemPositions # {} => SystemPositions = {1}

\* A system message given on a later call, behind an answered turn.
C25_SystemBehindTurn ==
    /\ Len(messages) >= 3
    /\ messages[1].role = "user"
    /\ messages[2].role = "assistant"
    /\ messages[3].role = "system"

(***************************************************************************)
(* Properties of the rendered message, checked under SpecRender.           *)
(***************************************************************************)
Rendered == rendered # NotRendered

\* The display name of each code: the table's entry for pii/email and
\* jailbreak, the others with `_' -> ` ', `/' -> ` - ' and title-cased.
ExpectedName(code) ==
    CASE code = Code(<<"pii", "/", "email">>) -> W("Email address")
      [] code = Code(<<"jailbreak">>) -> W("Jailbreak attempt")
      [] code = Code(<<"custom", "_", "check">>) ->
            Code(<<"Custom", " ", "Check">>)
      [] code = Code(<<"pii", "/", "custom">>) ->
            Code(<<"Pii", " - ", "Custom">>)
      [] code = Code(<<"hate">>) -> W("Hate")

\* The names occur in the text one after the other, from position `from' on.
RECURSIVE NamesInOrder(_, _, _)
NamesInOrder(names, text, from) ==
    IF names = <<>> THEN TRUE
    ELSE \E i \in from..(Len(text) - Len(Head(names))) :
            /\ SubSeq(text, i + 1, i + Len(Head(names))) = Head(names)
            /\ NamesInOrder(Tail(names), text, i + Len(Head(names)))

EndsWith(text, suffix) ==
    /\ Len(text) >= Len(suffix)
    /\ SubSeq(text, Len(text) - Len(suffix) + 1, Len(text)) = suffix

RemediationSentence ==
    W("\n\nPlease revise your message to comply with the content safety policy.")

\* C21: the rendered message of a GuardrailViolationError contains the
\* display name of every violation of its list, in list order, and ends with
\* the remediation sentence whatever the number of violations, zero included.
C21_RenderedNames ==
    Rendered =>
        /\ rendered.exc = "none"
        /\ NamesInOrder([i \in 1..Len(outcome.violations) |->
                            ExpectedName(outcome.violations[i].v)],
                        rendered.val.v, 0)
        /\ EndsWith(rendered.val.v, RemediationSentence)

\* An unknown code before a known one: both names, in that order.
C21_Witness ==
    /\ Rendered
    /\ outcome.violations = <<S(Code(<<"custom", "_", "check">>)),
                              S(Code(<<"pii", "/", "email">>))>>
    /\ IsSubText(Code(<<"Custom", " ", "Check">>), rendered.val.v)

\* An error without violations was rendered.
C21_WitnessNone ==
    /\ Rendered
    /\ outcome.violations = <<>>
    /\ rendered.exc = "none"

(***************************************************************************)
(* Properties of the supervisor, checked under SpecProxy and, for what     *)
(* must eventually happen, under SpecProxyLive.                            *)
(***************************************************************************)
Idle == mgr.pc = "idle"

\* A start(wait_for_ready=True) is in progress.
InWaitingStart == mgr.op = "start" /\ mgr.wait /\ ~Idle

\* C12: start(wait_for_ready=True, timeout=T) always terminates, whatever
\* the spawned process does: also when it stays alive, writes nothing and
\* never becomes healthy.
C12_StartTerminates == InWaitingStart ~> Idle

\* What keeps start() from returning: the supervisor waits in readline() for
\* a line of a process that is alive and silent.
BlockedInReadline ==
    /\ mgr.pc = "readline"
    /\ procs[process].state = "alive"
    /\ procs[process].out = 0

\* C12 (the rest of it): outside readline() the wait is bounded, a start in
\* progress returns unless it is blocked there.
C12_TerminatesUnlessBlocked == InWaitingStart ~> (Idle \/ BlockedInReadline)

\* A step of the call in progress, as opposed to a step of a process.
Stepped == mgr' # mgr

\* C13: when the health check at the beginning of start() succeeds, start
\* returns True at once, spawns nothing and leaves self.process and every
\* process alone, whether or not the settings file exists.
C13_AlreadyRunningNoSpawn ==
    [][(mgr.pc = "start" /\ Stepped /\ Healthy(procs)) =>
          /\ mgr'.pc = "idle"
          /\ ret'.val = "True"
          /\ ret'.spawned = NoProcess
          /\ process' = process
          /\ procs' = procs]_vars

\* start() found the gateway running on a host without the settings file.
C13_Witness ==
    /\ Idle
    /\ ret.op = "start"
    /\ ret.val = "True"
    /\ ret.probe = Answered(200)
    /\ ~host.config_exists
    /\ process = NoProcess

StartReturned == Idle /\ ret.op \in {"start", "ensure_running"}

\* C14 (without the executable): start() and ensure_running() raise nothing
\* but the FileNotFoundError of a missing executable, and with the gateway
\* not running a missing settings file gives False without a spawn.
C14_OtherFailuresAreFalse ==
    StartReturned =>
        /\ ret.val \in {"True", "False", "FileNotFoundError"}
        /\ (~host.config_exists /\ ret.probe # Answered(200)) =>
               (ret.val = "False" /\ ret.spawned = NoProcess)
        /\ ret.val = "FileNotFoundError" =>
               (host.install = "missing" /\ ret.spawned = NoProcess)

\* C14: every launch failure (settings file missing, executable not found,
\* startup timeout) makes start() return False, and no exception leaves
\* start() or ensure_running().
C14_LaunchFailureIsFalse ==
    /\ C14_OtherFailuresAreFalse
    /\ StartReturned => ret.val \in {"True", "False"}

\* start(wait_for_ready=True) spawned a process and returned False.
SpawnedAndFailed ==
    StartReturned /\ ret.wait /\ ret.val = "False" /\ ret.spawned # NoProcess

\* C15: when start(wait_for_ready=True) has spawned a process and returns
\* False, stop() has run before the return: terminate() was called on the
\* spawned process and the supervisor holds no process handle.
C15_FailureStopsFirst ==
    SpawnedAndFailed =>
        /\ procs[ret.spawned].signalled
        /\ process = NoProcess

\* The wait timed out on a live process, which stop() had to SIGKILL.
C15_Witness ==
    /\ SpawnedAndFailed
    /\ procs[ret.spawned].state = "doomed"
    /\ process = NoProcess

InStop == mgr.pc \in {"stop", "psutil", "lsof", "pgrep", "stop_end"}

\* The order of the strategies of stop().
AfterStrategy(pc) ==
    CASE pc = "stop" -> "psutil"
      [] pc = "psutil" -> "lsof"
      [] pc = "lsof" -> "pgrep"
      [] pc = "pgrep" -> "stop_end"
      [] OTHER -> "idle"

\* The stop() in progress was called by the command `proxy restart', which
\* goes on to start() when it returns.
ReturnsToRestart == mgr.op = "restart" /\ ~mgr.nested

\* C16: stop() never raises and never skips a later strategy because an
\* earlier one failed: whatever a strategy met (a refused signal, a process
\* already gone, a missing or timed-out tool), the next strategy runs, and
\* stop() returns normally, also with no gateway process present.
C16_StopRunsEveryStrategy ==
    [][(InStop /\ Stepped) =>
          /\ mgr.pc # "stop_end" =>
                 (mgr'.pc = AfterStrategy(mgr.pc) /\ ret' = ret)
          /\ (mgr.pc = "stop_end" /\ ~ReturnsToRestart) =>
                 /\ mgr'.pc = "idle"
                 /\ ret'.val = (IF mgr.nested THEN "False" ELSE "None")
          /\ (mgr.pc = "stop_end" /\ ReturnsToRestart) =>
                 (mgr'.pc = "start" /\ ret' = ret)]_vars

\* stop() returned normally on a host without any gateway process.
C16_Witness ==
    /\ Idle
    /\ ret.op = "stop"
    /\ ret.val = "None"
    /\ \A p \in Pids : procs[p] = Absent

\* C17 (first half): once a stop() that killed the process serving the
\* health endpoint has returned, the health endpoint eventually stops
\* answering, unless a start spawns a gateway first.
C17_EventuallyDown == mgr.quiet ~> (~Healthy(procs) \/ ~mgr.quiet)

\* C17: if a strategy of stop() kills the gateway process that serves the
\* health endpoint, then after stop() has returned is_running() eventually
\* returns False, and keeps returning False until some start spawns a new
\* gateway.
C17_StoppedStaysDown ==
    /\ C17_EventuallyDown
    /\ [][(mgr.quiet /\ mgr'.quiet /\ ~Healthy(procs)) =>
             ~Healthy(procs')]_vars

\* C18: ensure_running() returns True without any effect (nothing spawned,
\* nothing signalled, self.process unchanged) when the health check succeeds,
\* and otherwise calls start() with the default wait and timeout and returns
\* exactly what that call returns.
C18_EnsureRunning ==
    /\ [][(mgr.pc = "ensure_running" /\ Stepped) =>
             IF Healthy(procs)
             THEN /\ mgr'.pc = "idle"
                  /\ ret'.val = "True"
                  /\ ret'.path = "running"
                  /\ process' = process
                  /\ procs' = procs
             ELSE /\ mgr'.pc = "start"
                  /\ mgr'.wait
                  /\ mgr'.timeout = DefaultTimeout
                  /\ process' = process
                  /\ procs' = procs]_vars
    /\ []((Idle /\ ret.op = "ensure_running" /\ ret.path = "start") =>
              (ret.val = ret.inner /\ ret.wait))

\* ensure_running() found the gateway down, started it, and returned the
\* False of a start() that spawned a process and gave up.
C18_Witness ==
    /\ Idle
    /\ ret.op = "ensure_running"
    /\ ret.path = "start"
    /\ ret.val = "False"
    /\ ret.spawned # NoProcess

\* C19: is_running() and health_check() return True exactly when the health
\* endpoint answers 200, return False (and raise nothing) on every network
\* failure, touch nothing, and do not look at self.process.
C19_HealthIsTheEndpoint ==
    [][(mgr.pc \in {"is_running", "health_check"} /\ Stepped) =>
          /\ mgr'.pc = "idle"
          /\ ret'.val = PyBool(ret'.probe = Answered(200))
          /\ ret'.val = PyBool(Healthy(procs))
          /\ ret'.probe.net # "ok" => ret'.val = "False"
          /\ process' = process
          /\ procs' = procs]_vars

\* is_running() returned False on a connection error while the supervisor
\* held the handle of a live process.
C19_Witness ==
    /\ Idle
    /\ ret.op = "is_running"
    /\ ret.val = "False"
    /\ ret.probe = Unreachable("ConnectionError")
    /\ process # NoProcess
    /\ procs[process].state = "alive"

\* is_running() returned True while the supervisor held no handle.
C19_NoHandleHealthy ==
    /\ Idle
    /\ ret.op = "is_running"
    /\ ret.val = "True"
    /\ process = NoProcess

\* stop() is past lines 151-159.
PastHandle == mgr.pc \in {"psutil", "lsof", "pgrep", "stop_end"}

HandleStep == mgr.pc = "stop" /\ process # NoProcess /\ Stepped

\* C22: with a handle held, stop() first calls terminate() on the held
\* process and calls kill() only when the process has not exited within the
\* wait; the handle is cleared on every path, so past that step, and after
\* any stop() has returned, the supervisor holds no handle.
C22_TerminateThenKill ==
    /\ [][HandleStep =>
             /\ mgr'.calls # <<>>
             /\ mgr'.calls[1] = "terminate"
             /\ procs'[process].signalled
             /\ (\E i \in 1..Len(mgr'.calls) : mgr'.calls[i] = "kill") =>
                    /\ mgr'.calls = <<"terminate", "kill">>
                    /\ procs'[process].state = "doomed"
             /\ process' = NoProcess]_vars
    /\ [](PastHandle => process = NoProcess)
    /\ []((Idle /\ ret.op = "stop") => process = NoProcess)

\* A held live process survived the wait and was killed; the handle is gone.
C22_Witness ==
    /\ PastHandle
    /\ mgr.calls = <<"terminate", "kill">>
    /\ process = NoProcess
    /\ \E p \in Pids : procs[p].state = "doomed" /\ procs[p].signalled

\* A held process exited within the wait: terminate() alone.
C22_WitnessGraceful ==
    /\ PastHandle
    /\ mgr.calls = <<"terminate">>
    /\ process = NoProcess

\* The processes this supervisor spawned that are alive.
LivingSpawns == {p \in Pids : procs[p].own /\ procs[p].state = "alive"}

\* C23: after any sequence of start, stop and ensure_running calls, every
\* process the supervisor spawned that is still alive is the one its handle
\* references: start never replaces the handle of a living spawned process
\* by a new spawn.
C23_HandleTracksSpawns == Idle => \A p \in LivingSpawns : process = p

\* C23 (the step): start leaves the handle of a living spawned process alone.
C23_StartKeepsLivingHandle ==
    [][(mgr.pc = "start" /\ Stepped /\ process \in LivingSpawns) =>
          process' = process]_vars

\* Two living spawned processes, of which the handle references one.
C23_Untracked ==
    /\ Idle
    /\ Cardinality(LivingSpawns) = 2
    /\ process \in LivingSpawns

(***************************************************************************)
(* Properties of stop() when its listings may contain the supervisor's own *)
(* process, checked under SpecProxySelf.                                   *)
(***************************************************************************)
SelfSignalled == mgr.pc = "dead"

\* C24: no strategy of stop() sends a signal to the supervisor's own process
\* ID, whatever the enumeration, the port query and the name query return.
C24_NeverSignalsSelf == ~SelfSignalled

\* C24 (what holds): the strategies that enumerate by name, psutil and pgrep,
\* never signal the own process; only the port strategy does.
C24_NameStrategiesSkipSelf == SelfSignalled => mgr.by = "lsof"

\* psutil and pgrep ran on a host whose own command line matches, and stop()
\* returned.
C24_SkippedSelf ==
    /\ Idle
    /\ ret.op = "stop"
    /\ host.self_marker
    /\ ~host.self_on_port

(***************************************************************************)
(* Properties of the command `proxy restart', checked under SpecProxy.     *)
(***************************************************************************)
RestartDone == Idle /\ ret.op = "restart"

\* C26: `proxy restart' returns exit code 0 only if it spawned a new gateway
\* process after stopping the previous one; when stop() could not terminate
\* the gateway that was running, it returns exit code 1.
C26_RestartSpawns ==
    (RestartDone /\ ret.exit = "0") => ret.spawned # NoProcess

\* C26 (what holds): exit code 0 exactly when start() returned True, and
\* then the health endpoint answered.
C26_ExitFollowsStart ==
    RestartDone =>
        /\ ret.exit = "0" <=> ret.val = "True"
        /\ ret.exit = "0" => ret.probe = Answered(200)

\* A restart that killed the running gateway, spawned a new one and
\* returned exit code 0.
C26_Restarted ==
    /\ RestartDone
    /\ ret.exit = "0"
    /\ ret.spawned # NoProcess
    /\ procs[1].state = "exited"
    /\ ~procs[1].own

\* No strategy of stop() could signal the running gateway; start() found it
\* healthy, and the restart returned exit code 0 without a spawn.
C26_OldGatewaySurvives ==
    /\ RestartDone
    /\ ret.exit = "0"
    /\ ret.spawned = NoProcess
    /\ procs[1].state = "alive"
    /\ procs[1].serving
    /\ ~procs[1].signalled
    /\ ~procs[1].own
====
